---- MODULE Spec2Model ----
(***************************************************************************)
(* The send pipeline of mqjms.ProducerImpl (src/mqjms/ProducerImpl.go):    *)
(* Send opens a handle to the destination, builds the put descriptor and   *)
(* options from the producer options, the session mode and the message,    *)
(* puts, closes the handle through the deferred hook and normalises the    *)
(* native error.  The transport (ibmmq Open / Put / Close) is the          *)
(* environment: its outcomes are chosen nondeterministically.              *)
(***************************************************************************)
EXTENDS Integers, Sequences, FiniteSets, TLC

\* ------------------------------------------------------------------ bounds

\* Total number of Send calls started in one behaviour.
MaxSends == 2

\* ------------------------------------------------------- option values

\* A nil pointer / nil interface value, and a non-nil one holding x.
Nil == <<>>

Some(x) == <<x>>

\* jms20subset.DeliveryMode_NON_PERSISTENT / DeliveryMode_PERSISTENT.
DeliveryMode_NON_PERSISTENT == 1

DeliveryMode_PERSISTENT == 2

\* ibmmq.MQPER_NOT_PERSISTENT / MQPER_PERSISTENT.
MQPER_NOT_PERSISTENT == 0

MQPER_PERSISTENT == 1

\* ibmmq.MQEI_UNLIMITED: the expiry ibmmq.NewMQMD() gives a fresh descriptor.
MQEI_UNLIMITED == -1

\* ibmmq put-message options.
MQPMO_SYNCPOINT == 2

MQPMO_NO_SYNCPOINT == 4

MQPMO_NEW_MSG_ID == 64

\* ibmmq.MQFMT_STRING / MQFMT_NONE.
MQFMT_STRING == "MQSTR   "

MQFMT_NONE == ""

\* The session modes of the context; only SESSION_TRANSACTED is tested for.
JMSContextSESSIONTRANSACTED == "SESSION_TRANSACTED"

SessionModes == {"AUTO_ACKNOWLEDGE", "SESSION_TRANSACTED"}

\* ------------------------------------------------------ Go int (64 bit)

\* A Go int of a 64-bit build, kept as two limbs: the value is
\* hi * 2^16 + lo with 0 <= lo < 2^16 (two's complement: -1 is hi = -1,
\* lo = 65535), so that values beyond 32 bits can be told apart.
Limb == 65536

GoInt(n) == [hi |-> n \div Limb, lo |-> n % Limb]

GoIntNonNeg(v) == v.hi >= 0

GoIntPos(v) == v.hi > 0 \/ (v.hi = 0 /\ v.lo > 0)

\* int32(v): the low 32 bits of v, read as a signed number.
Int32Of(v) ==
    LET h == ((v.hi + (Limb \div 2)) % Limb) - (Limb \div 2)
    IN  h * Limb + v.lo

\* Go's a / b on integers truncates toward zero (b > 0 here).
GoDiv(a, b) ==
    IF a >= 0 \/ a % b = 0 THEN a \div b ELSE (a \div b) + 1

\* ------------------------------------------------------------ strconv

Digit == <<"0", "1", "2", "3", "4", "5", "6", "7", "8", "9">>

RECURSIVE ItoaNat(_)
ItoaNat(n) ==
    IF n < 10 THEN <<Digit[n + 1]>>
    ELSE Append(ItoaNat(n \div 10), Digit[(n % 10) + 1])

\* strconv.Itoa: the decimal rendering, as a sequence of characters.
Itoa(n) == IF n < 0 THEN <<"-">> \o ItoaNat(-n) ELSE ItoaNat(n)

\* ibmmq.MQItoString("RC", rc): the name of a reason code.
MQItoString(rc) ==
    CASE rc = 2085 -> "MQRC_UNKNOWN_OBJECT_NAME"
      [] rc = 2035 -> "MQRC_NOT_AUTHORIZED"
      [] rc = 2053 -> "MQRC_Q_FULL"
      [] rc = 2019 -> "MQRC_HOBJ_ERROR"
      [] OTHER -> ""

\* ----------------------------------------------------------- bit-wise or

RECURSIVE BitOr(_, _)
BitOr(a, b) ==
    IF a = 0 THEN b
    ELSE IF b = 0 THEN a
    ELSE (IF a % 2 = 1 \/ b % 2 = 1 THEN 1 ELSE 0)
         + 2 * BitOr(a \div 2, b \div 2)

RECURSIVE BitAnd(_, _)
BitAnd(a, b) ==
    IF a = 0 \/ b = 0 THEN 0
    ELSE (IF a % 2 = 1 /\ b % 2 = 1 THEN 1 ELSE 0)
         + 2 * BitAnd(a \div 2, b \div 2)

\* ------------------------------------------------------------------ state

VARIABLES
    producer,     \* the shared ProducerImpl: deliveryMode, timeToLive
    modeEverSet,  \* history: SetDeliveryMode has stored a value
    sessionMode,  \* producer.ctx.sessionMode
    msgs,         \* each message: its type and its mqmd pointer (0 = nil)
    heap,         \* the MQMD objects, by pointer
    handles,      \* the transport's view of every handle it has opened
    calls,        \* each goroutine's Send call: position and locals
    sends,        \* number of Send calls started
    aborted       \* log.Fatal has ended the process

vars == <<producer, modeEverSet, sessionMode, msgs, heap, handles, calls,
          sends, aborted>>

\* ------------------------------------------------------------- transport

DestName == "Q1"

\* The zero value ibmmq.MQObject{}.
ZeroMQObject == [hObj |-> 0, qMgr |-> "", Name |-> ""]

\* The object Open fills in before it calls the queue manager: it names the
\* queue manager and the queue, and holds no usable handle.
UnopenedMQObject == [hObj |-> 0, qMgr |-> "QM1", Name |-> DestName]

OpenedMQObject(h) == [hObj |-> h, qMgr |-> "QM1", Name |-> DestName]

MQReturn(cc, rc, verb) == [MQCC |-> cc, MQRC |-> rc, verb |-> verb]

\* The reason codes the transport fails an open / a put with.
OpenReasonCodes == {2085, 2035}

PutReasonCodes == {2053}

\* A put to a handle that is not open fails with MQRC_HOBJ_ERROR.
PutReasonCodesAt(h) == IF handles[h].open THEN PutReasonCodes ELSE {2019}

\* What Open can return beside an error: the zero object or the unopened one.
FailedOpenObjects == {ZeroMQObject, UnopenedMQObject}

\* ibmmq.NewMQMD(): a fresh descriptor.
NewMQMD ==
    [Format |-> MQFMT_NONE, Persistence |-> MQPER_PERSISTENT,
     Expiry |-> MQEI_UNLIMITED, ReplyToQ |-> "", MsgId |-> 0]

\* The descriptor of a message that was received earlier: it carries the
\* sender's reply-to queue, persistence and message identifier.
ReceivedMQMD(persistence) ==
    [Format |-> MQFMT_STRING, Persistence |-> persistence,
     Expiry |-> MQEI_UNLIMITED, ReplyToQ |-> "REPLYQ", MsgId |-> 1000]

\* A slip that lets messages of every type through the type switch.
SendableKinds_All == {"TextMessageImpl", "BytesMessageImpl", "unknown"}

\* The message types the switch of Send knows.
SendableKinds == {"TextMessageImpl", "BytesMessageImpl"}

\* ------------------------------------------------------------ the producer

\* The producer as the session's factory creates it.
NewProducer ==
    [deliveryMode |-> DeliveryMode_NON_PERSISTENT, timeToLive |-> GoInt(0)]

IdleCall ==
    [pc |-> "idle", id |-> 0, prod |-> NewProducer, msg |-> "oth",
     prior |-> Nil, qObject |-> ZeroMQObject, deferred |-> FALSE,
     openErr |-> Nil, putErr |-> Nil, err |-> Nil, retErr |-> Nil,
     put |-> Nil, via |-> "Send", arg |-> Nil, optionsChanged |-> FALSE,
     opens |-> 0, puts |-> 0, closes |-> 0]

\* The body of a message the factory has just created: a TextMessage has no
\* text yet (nil), a BytesMessage an empty byte slice.
EmptyBody(kind) == IF kind = "TextMessageImpl" THEN Nil ELSE Some(<<>>)

\* The text "hi" as bytes, and two raw bytes.
TextHi == <<104, 105>>

BytesOneTwo == <<1, 2>>

\* A message as the session's factory creates it (no descriptor yet), and a
\* message that was received earlier, whose descriptor is at pointer 1.
CreatedMessage(kind) == [kind |-> kind, mqmd |-> 0, body |-> EmptyBody(kind)]

ReceivedMessage(kind) ==
    [kind |-> kind, mqmd |-> 1,
     body |-> IF kind = "TextMessageImpl" THEN Some(TextHi)
              ELSE Some(BytesOneTwo)]

\* What every initial state shares: the producer as created, nothing sent.
InitCommon ==
    /\ producer = NewProducer
    /\ modeEverSet = FALSE
    /\ sessionMode \in SessionModes
    /\ handles = <<>>
    /\ sends = 0
    /\ aborted = FALSE

\* One goroutine uses the producer.  The application holds one message of a
\* type Send knows, created or received, and one of a type it does not know.
Init ==
    /\ InitCommon
    /\ calls = [c \in {"c1"} |-> IdleCall]
    /\ \E kind \in SendableKinds :
          \/ /\ msgs = [m \in {"msg", "oth"} |->
                          IF m = "msg" THEN CreatedMessage(kind)
                          ELSE CreatedMessage("unknown")]
             /\ heap = <<>>
          \/ /\ msgs = [m \in {"msg", "oth"} |->
                          IF m = "msg" THEN ReceivedMessage(kind)
                          ELSE CreatedMessage("unknown")]
             /\ \E persistence \in {MQPER_NOT_PERSISTENT, MQPER_PERSISTENT} :
                   heap = <<ReceivedMQMD(persistence)>>

\* Two goroutines use the producer concurrently, with a TextMessage, a
\* BytesMessage and a message of an unknown type, all newly created.
InitConcurrent ==
    /\ InitCommon
    /\ calls = [c \in {"c1", "c2"} |-> IdleCall]
    /\ msgs = [m \in {"txt", "byt", "oth"} |->
                  CASE m = "txt" -> CreatedMessage("TextMessageImpl")
                    [] m = "byt" -> CreatedMessage("BytesMessageImpl")
                    [] OTHER -> CreatedMessage("unknown")]
    /\ heap = <<>>

\* The goroutines and the messages of the behaviour.
Calls == DOMAIN calls

Messages == DOMAIN msgs

\* ----------------------------------------------------------- the setters

\* The arguments the application passes to the setters.
DeliveryModeArgs ==
    {DeliveryMode_NON_PERSISTENT, DeliveryMode_PERSISTENT, 0, 3}

\* -1, 0, 5000 and 2^31.
TimeToLiveArgs ==
    {GoInt(-1), GoInt(0), GoInt(5000), [hi |-> Limb \div 2, lo |-> 0]}

\* A slip that stores the mode without the test of its value.
DeliveryModeAfter_Unchecked(p, mode) == [p EXCEPT !.deliveryMode = mode]

\* SetDeliveryMode: the mode is stored only when it is one of the two
\* permitted values; otherwise a message is printed.
DeliveryModeAfter(p, mode) ==
    IF mode = DeliveryMode_PERSISTENT \/ mode = DeliveryMode_NON_PERSISTENT
    THEN [p EXCEPT !.deliveryMode = mode]
    ELSE p

SetDeliveryMode(mode) ==
    /\ ~aborted
    /\ producer' = DeliveryModeAfter(producer, mode)
    /\ modeEverSet' = (modeEverSet \/ producer'.deliveryMode = mode)
    /\ UNCHANGED <<sessionMode, msgs, heap, handles, calls, sends, aborted>>

\* A slip that stores the time to live without the test of its sign.
TimeToLiveAfter_Unchecked(p, timeToLive) == [p EXCEPT !.timeToLive = timeToLive]

\* SetTimeToLive: only a non-negative value is stored.
TimeToLiveAfter(p, timeToLive) ==
    IF GoIntNonNeg(timeToLive)
    THEN [p EXCEPT !.timeToLive = timeToLive]
    ELSE p

SetTimeToLive(timeToLive) ==
    /\ ~aborted
    /\ producer' = TimeToLiveAfter(producer, timeToLive)
    /\ UNCHANGED <<modeEverSet, sessionMode, msgs, heap, handles, calls,
                   sends, aborted>>

\* ------------------------------------------------------------------ Send

\* A call is between its entry and its return.
InFlight(c) == calls[c].pc \in {"open", "body", "normalize", "deferred"}

\* History: the descriptor the message carries when Send is called.
PriorOf(m) ==
    IF msgs[m].mqmd = 0 THEN Nil
    ELSE Some([ptr |-> msgs[m].mqmd, md |-> heap[msgs[m].mqmd]])

\* Entry of Send: the receiver is passed by value, so the call works on a
\* copy of the producer.  A message is used by one goroutine at a time.
SendCall(c, m) ==
    /\ ~aborted
    /\ calls[c].pc \in {"idle", "returned"}
    /\ sends < MaxSends
    /\ \A d \in Calls : InFlight(d) => calls[d].msg # m
    /\ sends' = sends + 1
    /\ calls' = [calls EXCEPT ![c] =
                    [IdleCall EXCEPT !.pc = "open", !.id = sends + 1,
                                     !.prod = producer, !.msg = m,
                                     !.prior = PriorOf(m)]]
    /\ UNCHANGED <<producer, modeEverSet, sessionMode, msgs, heap, handles,
                   aborted>>

\* A slip in the test of the object: the hook is registered for the zero
\* object only.
CloseRegistered_Inverted(qObject) == qObject = ZeroMQObject

\* The hook that closes the object is registered when the object Open
\* returned is not the zero MQObject.
CloseRegistered(qObject) == qObject # ZeroMQObject

\* producer.ctx.qMgr.Open(mqod, openOptions) and the registration of the
\* deferred Close.  A successful open returns a new handle and no error; a
\* failed one an error and one of FailedOpenObjects.
SendOpen(c) ==
    /\ ~aborted
    /\ calls[c].pc = "open"
    /\ \/ LET h == Len(handles) + 1
          IN  /\ handles' = Append(handles,
                                   [owner |-> calls[c].id, open |-> TRUE,
                                    closes |-> 0, putBy |-> {},
                                    closedBy |-> {}, putAfterClose |-> FALSE])
              /\ calls' = [calls EXCEPT
                             ![c].pc = "body",
                             ![c].qObject = OpenedMQObject(h),
                             ![c].deferred = CloseRegistered(OpenedMQObject(h)),
                             ![c].opens = @ + 1]
       \/ \E rc \in OpenReasonCodes, obj \in FailedOpenObjects :
              /\ handles' = handles
              /\ calls' = [calls EXCEPT
                             ![c].pc = "normalize",
                             ![c].qObject = obj,
                             ![c].deferred = CloseRegistered(obj),
                             ![c].err = Some(MQReturn(2, rc, "MQOPEN")),
                             ![c].openErr = Some(MQReturn(2, rc, "MQOPEN")),
                             ![c].opens = @ + 1]
    /\ UNCHANGED <<producer, modeEverSet, sessionMode, msgs, heap, sends,
                   aborted>>

\* A slip in the test of the session mode: syncpoint for every other mode.
SyncpointSetting_Swapped(mode) ==
    IF mode = JMSContextSESSIONTRANSACTED
    THEN MQPMO_NO_SYNCPOINT
    ELSE MQPMO_SYNCPOINT

\* The syncpoint value of the put options.
SyncpointSetting(mode) ==
    IF mode = JMSContextSESSIONTRANSACTED
    THEN MQPMO_SYNCPOINT
    ELSE MQPMO_NO_SYNCPOINT

\* A slip that leaves out the request for a new message identifier.
PmoOptions_NoNewMsgId(mode) == SyncpointSetting(mode)

\* pmo.Options = syncpointSetting | MQPMO_NEW_MSG_ID.
PmoOptions(mode) == BitOr(SyncpointSetting(mode), MQPMO_NEW_MSG_ID)

\* The MQMD persistence of a JMS delivery mode.
PersistenceOf(deliveryMode) ==
    IF deliveryMode = DeliveryMode_NON_PERSISTENT
    THEN MQPER_NOT_PERSISTENT
    ELSE MQPER_PERSISTENT

\* The descriptor the call starts from: a fresh one with the persistence of
\* the producer's delivery mode.
FreshMQMD(prod) ==
    [NewMQMD EXCEPT !.Persistence = PersistenceOf(prod.deliveryMode)]

\* A slip that always puts the fresh descriptor.
Adopts_Never(m) == FALSE

\* The message's own descriptor is used when it has one.
Adopts(m) == msgs[m].mqmd # 0

\* The pointer of the descriptor that is put: the message's, or the fresh one.
PutPtr(m) == IF Adopts(m) THEN msgs[m].mqmd ELSE Len(heap) + 1

\* The descriptor that is put, before the format and the expiry are set.
BaseMQMD(prod, m) == IF Adopts(m) THEN heap[msgs[m].mqmd] ELSE FreshMQMD(prod)

\* The format of each message type.
FormatOf(kind) ==
    IF kind = "TextMessageImpl" THEN MQFMT_STRING ELSE MQFMT_NONE

\* putmqmd.Expiry = int32(producer.timeToLive) / 100.
ExpiryOf(timeToLive) == GoDiv(Int32Of(timeToLive), 100)

\* The expiry is set only when the producer has a time to live.
WithExpiry(md, timeToLive) ==
    IF GoIntPos(timeToLive)
    THEN [md EXCEPT !.Expiry = ExpiryOf(timeToLive)]
    ELSE md

\* The descriptor as it is passed to Put.
PutMQMD(prod, m) ==
    WithExpiry([BaseMQMD(prod, m) EXCEPT !.Format = FormatOf(msgs[m].kind)],
               prod.timeToLive)

\* typedMsg.GetText(): a pointer to the text, nil when none was set.  A Go
\* string is a sequence of bytes, which []byte(*msgStr) copies.
GetText(message) == message.body

\* typedMsg.ReadBytes(): a pointer to the bytes of the BytesMessage.
ReadBytes(message) == message.body

\* A slip that takes the payload of a TextMessage for every message type.
BufferOf_AlwaysText(message) ==
    IF GetText(message) # Nil /\ message.kind = "TextMessageImpl"
    THEN GetText(message)[1]
    ELSE <<>>

\* The payload of each message type: the bytes of the text (the nil slice
\* when the text is nil), or the bytes read from the BytesMessage.
BufferOf(message) ==
    IF message.kind = "TextMessageImpl"
    THEN IF GetText(message) # Nil THEN GetText(message)[1] ELSE <<>>
    ELSE ReadBytes(message)[1]

\* A slip that leaves the message's mqmd field as it was.
MqmdStored_Kept(m, p) == msgs[m].mqmd

\* typedMsg.mqmd = putmqmd: the message holds the descriptor that is put.
MqmdStored(m, p) == p

\* A slip that reads the options of the shared producer at the time of use.
ProducerUsed_Shared(c) == producer

\* The producer the call works with: the copy made at its entry.
ProducerUsed(c) == calls[c].prod

\* A handle kept in a place the calls share: the one opened last.
HandleUsed_Shared(c) == Len(handles)

\* The handle the call puts to and closes: its own local qObject.
HandleUsed(c) == calls[c].qObject.hObj

\* The heap with the descriptor md stored at pointer p.
Store(p, md) ==
    IF p \in DOMAIN heap THEN [heap EXCEPT ![p] = md] ELSE Append(heap, md)

\* The transport's record of a put to handle h by call id.
HandlePut(h, id) ==
    [handles EXCEPT ![h].putBy = @ \cup {id},
                    ![h].putAfterClose = @ \/ ~handles[h].open]

\* The body of "if err == nil": options, descriptor, the type switch, the
\* expiry and qObject.Put.  A message of another type ends the process.
SendBody(c) ==
    /\ ~aborted
    /\ calls[c].pc = "body"
    /\ LET m    == calls[c].msg
           prod == ProducerUsed(c)
           h    == HandleUsed(c)
       IN  \/ /\ msgs[m].kind \notin SendableKinds
              /\ aborted' = TRUE
              /\ calls' = [calls EXCEPT ![c].pc = "fatal"]
              /\ UNCHANGED <<msgs, heap, handles>>
           \/ /\ msgs[m].kind \in SendableKinds
              /\ LET p       == PutPtr(m)
                     md      == PutMQMD(prod, m)
                     options == PmoOptions(sessionMode)
                     passed  == [hObj |-> h, ptr |-> p, md |-> md,
                                 options |-> options,
                                 buffer |-> BufferOf(msgs[m])]
                 IN  /\ msgs' = [msgs EXCEPT ![m].mqmd = MqmdStored(m, p)]
                     /\ handles' = HandlePut(h, calls[c].id)
                     /\ \/ /\ handles[h].open
                           /\ heap' = Store(p,
                                  IF BitAnd(options, MQPMO_NEW_MSG_ID) # 0
                                     \/ md.MsgId = 0
                                  THEN [md EXCEPT !.MsgId = calls[c].id]
                                  ELSE md)
                           /\ calls' = [calls EXCEPT
                                          ![c].pc = "normalize",
                                          ![c].put = Some(passed),
                                          ![c].optionsChanged =
                                             (producer # calls[c].prod),
                                          ![c].puts = @ + 1]
                        \/ \E rc \in PutReasonCodesAt(h) :
                              /\ heap' = Store(p, md)
                              /\ calls' = [calls EXCEPT
                                             ![c].pc = "normalize",
                                             ![c].put = Some(passed),
                                             ![c].optionsChanged =
                                                (producer # calls[c].prod),
                                             ![c].puts = @ + 1,
                                             ![c].err =
                                                Some(MQReturn(2, rc, "MQPUT")),
                                             ![c].putErr =
                                                Some(MQReturn(2, rc, "MQPUT"))]
              /\ aborted' = aborted
    /\ UNCHANGED <<producer, modeEverSet, sessionMode, sends>>

\* jms20subset.CreateJMSException(reason, errorCode, linkedError).
CreateJMSException(reason, errorCode, linkedError) ==
    [reason |-> reason, errorCode |-> errorCode, linkedError |-> linkedError]

\* A slip that renders the completion code instead of the reason code.
RetErrOf_CompCode(err) ==
    IF err = Nil THEN Nil
    ELSE LET rcInt == err[1].MQCC
         IN  Some(CreateJMSException(MQItoString(rcInt), Itoa(rcInt), err))

\* The error Send returns for the native error err (nil for nil).
RetErrOf(err) ==
    IF err = Nil THEN Nil
    ELSE LET rcInt == err[1].MQRC
         IN  Some(CreateJMSException(MQItoString(rcInt), Itoa(rcInt), err))

\* The block that handles the errors of the open and of the put.
SendNormalize(c) ==
    /\ ~aborted
    /\ calls[c].pc = "normalize"
    /\ calls' = [calls EXCEPT ![c].pc = "deferred",
                              ![c].retErr = RetErrOf(calls[c].err)]
    /\ UNCHANGED <<producer, modeEverSet, sessionMode, msgs, heap, handles,
                   sends, aborted>>

\* The transport's record of a close of handle h by call id.
HandleClose(h, id) ==
    IF h \in DOMAIN handles
    THEN [handles EXCEPT ![h].open = FALSE, ![h].closes = @ + 1,
                         ![h].closedBy = @ \cup {id}]
    ELSE handles

\* The return of Send: the deferred qObject.Close(0) runs when it was
\* registered, and then the caller has the result.
SendDeferred(c) ==
    /\ ~aborted
    /\ calls[c].pc = "deferred"
    /\ IF calls[c].deferred
       THEN /\ handles' = HandleClose(HandleUsed(c), calls[c].id)
            /\ calls' = [calls EXCEPT ![c].pc = "returned",
                                      ![c].closes = @ + 1]
       ELSE /\ handles' = handles
            /\ calls' = [calls EXCEPT ![c].pc = "returned"]
    /\ UNCHANGED <<producer, modeEverSet, sessionMode, msgs, heap, sends,
                   aborted>>

Next ==
    \/ \E mode \in DeliveryModeArgs : SetDeliveryMode(mode)
    \/ \E timeToLive \in TimeToLiveArgs : SetTimeToLive(timeToLive)
    \/ \E c \in Calls, m \in Messages : SendCall(c, m)
    \/ \E c \in Calls : SendOpen(c)
    \/ \E c \in Calls : SendBody(c)
    \/ \E c \in Calls : SendNormalize(c)
    \/ \E c \in Calls : SendDeferred(c)

Spec == Init /\ [][Next]_vars

\* Concurrent use: the Send calls of two goroutines interleave at every
\* transport call; the producer's options stay as created.
NextConcurrent ==
    \/ \E c \in Calls, m \in Messages : SendCall(c, m)
    \/ \E c \in Calls : SendOpen(c)
    \/ \E c \in Calls : SendBody(c)
    \/ \E c \in Calls : SendNormalize(c)
    \/ \E c \in Calls : SendDeferred(c)

SpecConcurrent == InitConcurrent /\ [][NextConcurrent]_vars

\* ------------------------------------------- SendString and SendBytes

\* producer.ctx.CreateTextMessage() and producer.ctx.CreateBytesMessage().
CreateTextMessage == CreatedMessage("TextMessageImpl")

CreateBytesMessage == CreatedMessage("BytesMessageImpl")

\* msg.SetText(bodyStr) and msg.WriteBytes(body).
SetText(message, bodyStr) == [message EXCEPT !.body = Some(bodyStr)]

WriteBytes(message, body) == [message EXCEPT !.body = Some(body)]

\* The message SendString builds for its argument.
StringMessage(bodyStr) == SetText(CreateTextMessage, bodyStr)

\* A slip that follows the comment in SendBytes and builds a TextMessage.
BytesMessage_AsText(body) == SetText(CreateTextMessage, body)

\* The message SendBytes builds for its argument.
BytesMessage(body) == WriteBytes(CreateBytesMessage, body)

\* The message variable local to the helper call c.
LocalMessage(c) == c

\* The arguments the application passes to SendString and SendBytes.
StringArgs == {<<>>, TextHi}

BytesArgs == {<<>>, BytesOneTwo}

\* The entry of a helper that has built message and calls producer.Send
\* with it; the receiver and the argument are passed on by value.
HelperCall(c, via, arg, message) ==
    /\ ~aborted
    /\ calls[c].pc \in {"idle", "returned"}
    /\ sends < MaxSends
    /\ sends' = sends + 1
    /\ msgs' = [msgs EXCEPT ![LocalMessage(c)] = message]
    /\ calls' = [calls EXCEPT ![c] =
                    [IdleCall EXCEPT !.pc = "open", !.id = sends + 1,
                                     !.prod = producer,
                                     !.msg = LocalMessage(c),
                                     !.prior = Nil, !.via = via,
                                     !.arg = Some(arg)]]
    /\ UNCHANGED <<producer, modeEverSet, sessionMode, heap, handles,
                   aborted>>

SendString(c, bodyStr) ==
    HelperCall(c, "SendString", bodyStr, StringMessage(bodyStr))

SendBytes(c, body) ==
    HelperCall(c, "SendBytes", body, BytesMessage(body))

\* The arguments of the setters while the helpers are in use: PERSISTENT and
\* an invalid mode; -1 and 5000.
HelperModeArgs == {DeliveryMode_PERSISTENT, 3}

HelperTimeToLiveArgs == {GoInt(-1), GoInt(5000)}

\* One goroutine uses Send, SendString and SendBytes, and holds one message
\* it has created or received; the setters run at any time, also while a
\* send is in flight.
InitHelpers ==
    /\ InitCommon
    /\ calls = [c \in {"c1"} |-> IdleCall]
    /\ \E kind \in SendableKinds :
          \/ /\ msgs = [m \in {"msg", "c1"} |->
                          IF m = "msg" THEN CreatedMessage(kind)
                          ELSE CreatedMessage("unknown")]
             /\ heap = <<>>
          \/ /\ msgs = [m \in {"msg", "c1"} |->
                          IF m = "msg" THEN ReceivedMessage(kind)
                          ELSE CreatedMessage("unknown")]
             /\ heap = <<ReceivedMQMD(MQPER_PERSISTENT)>>

NextHelpers ==
    \/ \E mode \in HelperModeArgs : SetDeliveryMode(mode)
    \/ \E timeToLive \in HelperTimeToLiveArgs : SetTimeToLive(timeToLive)
    \/ \E c \in Calls : SendCall(c, "msg")
    \/ \E c \in Calls, bodyStr \in StringArgs : SendString(c, bodyStr)
    \/ \E c \in Calls, body \in BytesArgs : SendBytes(c, body)
    \/ \E c \in Calls : SendOpen(c)
    \/ \E c \in Calls : SendBody(c)
    \/ \E c \in Calls : SendNormalize(c)
    \/ \E c \in Calls : SendDeferred(c)

SpecHelpers == InitHelpers /\ [][NextHelpers]_vars

\* ------------------------------------------------------------ properties

\* The call has returned to its caller.
Returned(c) == calls[c].pc = "returned"

\* The call's open succeeded.
OpenSucceeded(c) ==
    calls[c].pc \notin {"idle", "open"} /\ calls[c].openErr = Nil

\* The handles the transport opened for the call.
HandlesOf(c) == {h \in DOMAIN handles : handles[h].owner = calls[c].id}

\* The value of a decimal numeral, and whether a string is one in the form
\* without sign and leading zeros.
DigitValue(ch) == CHOOSE i \in 0..9 : Digit[i + 1] = ch

RECURSIVE DecimalValue(_)
DecimalValue(str) ==
    IF Len(str) = 0 THEN 0
    ELSE 10 * DecimalValue(SubSeq(str, 1, Len(str) - 1))
         + DigitValue(str[Len(str)])

IsDecimal(str) ==
    /\ Len(str) >= 1
    /\ \A i \in 1..Len(str) : \E d \in 1..10 : Digit[d] = str[i]
    /\ Len(str) > 1 => str[1] # "0"

\* The mathematical quotient v / d of a non-negative Go int (limb-wise long
\* division; v < 2^37 keeps every intermediate below 2^31).
ExactDiv(v, d) ==
    (v.hi \div d) * Limb + (((v.hi % d) * Limb + v.lo) \div d)

\* Whether a set of option bits holds the bits of flag.
HasOption(options, flag) == BitAnd(options, flag) = flag

\* C1: when the open succeeded, the call has opened one handle, exactly once,
\* and that handle has been closed exactly once when Send has returned,
\* whether the put succeeded or failed.
C1_OpenedOnceClosedOnce ==
    \A c \in Calls :
        (Returned(c) /\ OpenSucceeded(c)) =>
            /\ calls[c].opens = 1
            /\ HandlesOf(c) = {calls[c].qObject.hObj}
            /\ calls[c].closes = 1
            /\ handles[calls[c].qObject.hObj].closes = 1
            /\ ~handles[calls[c].qObject.hObj].open

\* A Send has returned whose open succeeded and whose put failed.
C1_Witness ==
    \E c \in Calls :
        /\ Returned(c) /\ OpenSucceeded(c)
        /\ calls[c].putErr # Nil
        /\ handles[calls[c].qObject.hObj].closes = 1

\* C2: when the open failed, the call invokes no put and no close, whatever
\* object the open returned.
C2_NoPutNoCloseAfterFailedOpen ==
    \A c \in Calls :
        (Returned(c) /\ calls[c].openErr # Nil) =>
            calls[c].puts = 0 /\ calls[c].closes = 0

\* The native error of the step that failed: the open's, or the put's.
FailedStep(c) ==
    IF calls[c].openErr # Nil THEN calls[c].openErr ELSE calls[c].putErr

\* C3: Send returns no error exactly when the open and the put succeeded;
\* otherwise the error code is the decimal numeral of the reason code of the
\* step that failed, and the cause is that native error.
C3_ErrorNormalized ==
    \A c \in Calls :
        Returned(c) =>
            /\ calls[c].retErr = Nil <=>
                  (OpenSucceeded(c) /\ calls[c].puts = 1
                   /\ calls[c].putErr = Nil)
            /\ calls[c].retErr # Nil =>
                  /\ FailedStep(c) # Nil
                  /\ IsDecimal(calls[c].retErr[1].errorCode)
                  /\ DecimalValue(calls[c].retErr[1].errorCode)
                        = FailedStep(c)[1].MQRC
                  /\ calls[c].retErr[1].linkedError = FailedStep(c)

\* A Send has returned the error of a failed put.
C3_Witness ==
    \E c \in Calls :
        /\ Returned(c) /\ OpenSucceeded(c)
        /\ calls[c].putErr # Nil
        /\ calls[c].retErr # Nil
        /\ calls[c].retErr[1].errorCode = <<"2", "0", "5", "3">>

\* C4: in every interleaving of concurrent Send calls each call has a handle
\* of its own, a handle is put to and closed by the call that opened it only,
\* never put to after its close and never closed twice, and once every call
\* has returned each opened handle has been closed exactly once.
C4_HandlesNotShared ==
    /\ \A c \in Calls :
          OpenSucceeded(c) => HandlesOf(c) = {calls[c].qObject.hObj}
    /\ \A c, d \in Calls :
          (c # d /\ OpenSucceeded(c) /\ OpenSucceeded(d)) =>
              calls[c].qObject.hObj # calls[d].qObject.hObj
    /\ \A h \in DOMAIN handles :
          /\ handles[h].putBy \subseteq {handles[h].owner}
          /\ handles[h].closedBy \subseteq {handles[h].owner}
          /\ ~handles[h].putAfterClose
          /\ handles[h].closes <= 1
    /\ (\A c \in Calls : calls[c].pc \in {"idle", "returned"}) =>
          \A h \in DOMAIN handles : handles[h].closes = 1

\* Two calls hold open handles at the same time, one of them put to.
C4_Witness ==
    \E c, d \in Calls :
        /\ c # d
        /\ calls[c].pc = "deferred" /\ calls[c].put # Nil
        /\ calls[d].pc = "body"
        /\ handles[calls[c].qObject.hObj].open
        /\ handles[calls[d].qObject.hObj].open

\* C5: the persistence of the descriptor passed to put is the one of the
\* delivery mode the call works with, also for an adopted descriptor.
C5_PersistenceFromDeliveryMode ==
    \A c \in Calls :
        calls[c].put # Nil =>
            /\ calls[c].prod.deliveryMode = DeliveryMode_PERSISTENT =>
                  calls[c].put[1].md.Persistence = MQPER_PERSISTENT
            /\ calls[c].prod.deliveryMode = DeliveryMode_NON_PERSISTENT =>
                  calls[c].put[1].md.Persistence = MQPER_NOT_PERSISTENT

\* C6: a producer whose delivery mode was never set puts non-persistent
\* descriptors.
C6_DefaultNonPersistent ==
    \A c \in Calls :
        (calls[c].put # Nil /\ ~modeEverSet) =>
            calls[c].put[1].md.Persistence = MQPER_NOT_PERSISTENT

\* C7: for a time to live above 0 the expiry passed to put is the time to
\* live divided by 100.
C7_ExpiryIsTtlDiv100 ==
    \A c \in Calls :
        (calls[c].put # Nil /\ GoIntPos(calls[c].prod.timeToLive)) =>
            calls[c].put[1].md.Expiry
               = ExactDiv(calls[c].prod.timeToLive, 100)

\* C8: with a time to live of 0 the expiry passed to put is the default,
\* unlimited, also for an adopted descriptor.
C8_ZeroTtlNeverExpires ==
    \A c \in Calls :
        (calls[c].put # Nil /\ calls[c].prod.timeToLive = GoInt(0)) =>
            calls[c].put[1].md.Expiry = MQEI_UNLIMITED

\* C9: a message that carries a descriptor is put with that very descriptor,
\* its reply-to queue as it was.
C9_PriorDescriptorAdopted ==
    \A c \in Calls :
        (calls[c].put # Nil /\ calls[c].prior # Nil) =>
            /\ calls[c].put[1].ptr = calls[c].prior[1].ptr
            /\ calls[c].put[1].md.ReplyToQ = calls[c].prior[1].md.ReplyToQ

\* A message whose descriptor names a reply-to queue has been put.
C9_Witness ==
    \E c \in Calls :
        /\ calls[c].put # Nil /\ calls[c].prior # Nil
        /\ calls[c].prior[1].md.ReplyToQ = "REPLYQ"
        /\ calls[c].put[1].md.ReplyToQ = "REPLYQ"

\* C10: the options of a put ask for syncpoint exactly in a transacted
\* session and for no syncpoint otherwise, and always for a new message
\* identifier.
C10_PutOptions ==
    \A c \in Calls :
        calls[c].put # Nil =>
            /\ HasOption(calls[c].put[1].options, MQPMO_SYNCPOINT)
                  <=> sessionMode = JMSContextSESSIONTRANSACTED
            /\ HasOption(calls[c].put[1].options, MQPMO_NO_SYNCPOINT)
                  <=> sessionMode # JMSContextSESSIONTRANSACTED
            /\ HasOption(calls[c].put[1].options, MQPMO_NEW_MSG_ID)

\* An adopted descriptor has been put in a transacted session.
C10_Witness ==
    \E c \in Calls :
        /\ calls[c].put # Nil /\ calls[c].prior # Nil
        /\ sessionMode = JMSContextSESSIONTRANSACTED
        /\ HasOption(calls[c].put[1].options, MQPMO_SYNCPOINT)

\* C11: after a successful Send of a TextMessage or BytesMessage the message
\* holds the very descriptor that was passed to put, and that descriptor
\* carries the non-empty identifier the transport assigned in that put.
C11_DescriptorReadBack ==
    \A c \in Calls :
        (Returned(c) /\ calls[c].retErr = Nil) =>
            /\ calls[c].put # Nil
            /\ msgs[calls[c].msg].kind \in SendableKinds
            /\ msgs[calls[c].msg].mqmd # 0
            /\ msgs[calls[c].msg].mqmd = calls[c].put[1].ptr
            /\ heap[msgs[calls[c].msg].mqmd].MsgId # 0
            /\ heap[msgs[calls[c].msg].mqmd].MsgId = calls[c].id

\* A message that carried an older identifier has been sent successfully.
C11_Witness ==
    \E c \in Calls :
        /\ Returned(c) /\ calls[c].retErr = Nil
        /\ calls[c].prior # Nil
        /\ calls[c].prior[1].md.MsgId # 0
        /\ heap[msgs[calls[c].msg].mqmd].MsgId = calls[c].id

\* The call is past the open and the body of Send.
PastBody(c) == calls[c].pc \in {"normalize", "deferred", "returned"}

\* The message of the call is a TextMessage or a BytesMessage.
TextOrBytes(c) ==
    msgs[calls[c].msg].kind \in {"TextMessageImpl", "BytesMessageImpl"}

\* C16: when the open succeeded and the message is neither a TextMessage nor
\* a BytesMessage, Send ends the process: no put is invoked for the message
\* and Send does not return, neither without error nor with an error.
C16_UnknownTypeIsFatal ==
    \A c \in Calls :
        (OpenSucceeded(c) /\ ~TextOrBytes(c)) =>
            /\ calls[c].pc \in {"body", "fatal"}
            /\ calls[c].pc = "fatal" => aborted
            /\ calls[c].puts = 0
            /\ calls[c].put = Nil
            /\ handles[calls[c].qObject.hObj].putBy = {}
            /\ calls[c].retErr = Nil
            /\ msgs[calls[c].msg].mqmd = 0

\* The process has ended in a Send of a message of an unknown type.
C16_Witness ==
    \E c \in Calls :
        /\ calls[c].pc = "fatal" /\ aborted
        /\ OpenSucceeded(c) /\ ~TextOrBytes(c)
        /\ calls[c].puts = 0

\* C17: a handle whose open succeeded has been closed when Send is left on
\* any path, the path that ends the process for an unknown message type
\* included.
C17_ClosedOnEveryExit ==
    \A c \in Calls :
        (OpenSucceeded(c) /\ calls[c].pc \in {"returned", "fatal"}) =>
            /\ ~handles[calls[c].qObject.hObj].open
            /\ handles[calls[c].qObject.hObj].closes = 1

\* C18: Send writes the descriptor of a TextMessage or BytesMessage exactly
\* when the open succeeded.  After a failed open the message holds the
\* descriptor it held before the call, unchanged; after a successful open it
\* holds the descriptor passed to put, and when the put failed that
\* descriptor is as it was passed, with the format and (for a TTL above 0)
\* the expiry already set.
C18_DescriptorFrame ==
    \A c \in Calls :
        (PastBody(c) /\ TextOrBytes(c)) =>
            LET m == calls[c].msg
            IN  /\ calls[c].openErr # Nil =>
                    /\ calls[c].put = Nil
                    /\ PriorOf(m) = calls[c].prior
                /\ calls[c].openErr = Nil =>
                    /\ calls[c].put # Nil
                    /\ msgs[m].mqmd # 0
                    /\ msgs[m].mqmd = calls[c].put[1].ptr
                /\ calls[c].putErr # Nil =>
                    /\ heap[msgs[m].mqmd] = calls[c].put[1].md
                    /\ heap[msgs[m].mqmd].Format =
                          (IF msgs[m].kind = "TextMessageImpl"
                           THEN MQFMT_STRING ELSE MQFMT_NONE)
                    /\ GoIntPos(calls[c].prod.timeToLive) =>
                          heap[msgs[m].mqmd].Expiry =
                              GoDiv(Int32Of(calls[c].prod.timeToLive), 100)

\* The put of a message that came with a descriptor has failed, and the
\* descriptor the message holds has the new expiry.
C18_Witness ==
    \E c \in Calls :
        /\ Returned(c) /\ calls[c].putErr # Nil
        /\ calls[c].prior # Nil
        /\ msgs[calls[c].msg].mqmd = calls[c].prior[1].ptr
        /\ heap[msgs[calls[c].msg].mqmd].Expiry # calls[c].prior[1].md.Expiry

\* C13: SetDeliveryMode with a value other than PERSISTENT and NON_PERSISTENT
\* and SetTimeToLive with a negative value leave both options as they are and
\* end nothing; a valid value is stored, the other option stays, and the same
\* call repeated leaves the state of the first call.
C13_SettersValidate ==
    [][/\ \A mode \in DeliveryModeArgs :
             SetDeliveryMode(mode) =>
                 /\ IF mode \in {DeliveryMode_PERSISTENT,
                                 DeliveryMode_NON_PERSISTENT}
                    THEN producer'.deliveryMode = mode
                    ELSE producer'.deliveryMode = producer.deliveryMode
                 /\ producer'.timeToLive = producer.timeToLive
                 /\ DeliveryModeAfter(producer', mode) = producer'
                 /\ UNCHANGED <<msgs, heap, handles, calls, aborted>>
       /\ \A timeToLive \in TimeToLiveArgs :
             SetTimeToLive(timeToLive) =>
                 /\ IF timeToLive.hi >= 0
                    THEN producer'.timeToLive = timeToLive
                    ELSE producer'.timeToLive = producer.timeToLive
                 /\ producer'.deliveryMode = producer.deliveryMode
                 /\ TimeToLiveAfter(producer', timeToLive) = producer'
                 /\ UNCHANGED <<msgs, heap, handles, calls, aborted>>]_vars

\* Both setters have stored a valid value before anything was sent.
C13_Witness ==
    /\ producer.deliveryMode = DeliveryMode_PERSISTENT
    /\ producer.timeToLive = GoInt(5000)
    /\ modeEverSet
    /\ sends = 0

\* C14: in every reachable state of the producer, after any sequence of
\* SetDeliveryMode, SetTimeToLive and Send with any arguments, deliveryMode
\* is PERSISTENT or NON_PERSISTENT and timeToLive is at least 0.
C14_OptionsValid ==
    /\ producer.deliveryMode \in {DeliveryMode_PERSISTENT,
                                  DeliveryMode_NON_PERSISTENT}
    /\ producer.timeToLive.hi >= 0
    /\ producer.timeToLive.lo \in 0..(Limb - 1)

\* The options were changed from their initial values and a Send returned.
C14_Witness ==
    /\ producer.deliveryMode = DeliveryMode_PERSISTENT
    /\ producer.timeToLive = [hi |-> Limb \div 2, lo |-> 0]
    /\ \E c \in Calls : Returned(c)

\* The text or the bytes a message holds (none for a text that was not set).
PayloadOf(message) == IF message.body = Nil THEN <<>> ELSE message.body[1]

\* C12: the format and the payload passed to put follow from the message
\* type: a TextMessage is put with the string format and the bytes of its
\* text (the empty payload, and no failure of its own, when no text was set),
\* a BytesMessage with the format none and exactly its bytes, with a fresh
\* descriptor as with an adopted one.
C12_FormatAndPayload ==
    \A c \in Calls :
        (OpenSucceeded(c) /\ PastBody(c)) =>
            LET message == msgs[calls[c].msg]
            IN  /\ calls[c].put # Nil
                /\ calls[c].puts = 1
                /\ message.kind = "TextMessageImpl" =>
                      /\ calls[c].put[1].md.Format = MQFMT_STRING
                      /\ heap[calls[c].put[1].ptr].Format = MQFMT_STRING
                /\ message.kind = "BytesMessageImpl" =>
                      /\ calls[c].put[1].md.Format = MQFMT_NONE
                      /\ heap[calls[c].put[1].ptr].Format = MQFMT_NONE
                /\ calls[c].put[1].buffer = PayloadOf(message)
                /\ calls[c].err # Nil => calls[c].err = calls[c].putErr

\* A BytesMessage that came with a descriptor of another format has been put
\* with its two bytes and the format none.
C12_Witness ==
    \E c \in Calls :
        /\ calls[c].put # Nil
        /\ calls[c].prior # Nil
        /\ calls[c].prior[1].md.Format = MQFMT_STRING
        /\ msgs[calls[c].msg].kind = "BytesMessageImpl"
        /\ calls[c].put[1].md.Format = MQFMT_NONE
        /\ calls[c].put[1].buffer = BytesOneTwo

\* The call came in through SendString or SendBytes.
ViaHelper(c) == calls[c].via \in {"SendString", "SendBytes"}

\* The message the session's factory creates for a helper's argument.
FactoryMessage(via, arg) ==
    [kind |-> IF via = "SendString" THEN "TextMessageImpl"
              ELSE "BytesMessageImpl",
     mqmd |-> 0, body |-> Some(arg)]

\* C15: SendString and SendBytes do what Send does with a message the
\* factory has just created for the text or the bytes: one open; the put of a
\* fresh descriptor with the format of the type, the producer's persistence
\* and expiry, the options of Send and the argument as payload; the close of
\* the opened handle; the error of Send, and no error without a failed open
\* or put.
C15_HelpersAreSend ==
    \A c \in Calls :
        (ViaHelper(c) /\ calls[c].pc # "idle") =>
            LET m       == calls[c].msg
                arg     == calls[c].arg[1]
                factory == FactoryMessage(calls[c].via, arg)
                fresh   == [FreshMQMD(calls[c].prod) EXCEPT
                               !.Format = FormatOf(factory.kind)]
            IN  /\ msgs[m].kind = factory.kind
                /\ msgs[m].body = factory.body
                /\ calls[c].prior = Nil
                /\ calls[c].pc # "fatal"
                /\ calls[c].opens <= 1 /\ calls[c].puts <= 1
                /\ calls[c].put # Nil =>
                      /\ calls[c].openErr = Nil
                      /\ calls[c].put[1].hObj = calls[c].qObject.hObj
                      /\ calls[c].put[1].md =
                            WithExpiry(fresh, calls[c].prod.timeToLive)
                      /\ calls[c].put[1].options = PmoOptions(sessionMode)
                      /\ calls[c].put[1].buffer = arg
                      /\ msgs[m].mqmd = calls[c].put[1].ptr
                /\ Returned(c) =>
                      /\ calls[c].opens = 1
                      /\ calls[c].puts = (IF calls[c].openErr = Nil
                                          THEN 1 ELSE 0)
                      /\ calls[c].closes = (IF calls[c].deferred
                                            THEN 1 ELSE 0)
                      /\ OpenSucceeded(c) =>
                            handles[calls[c].qObject.hObj].closes = 1
                      /\ calls[c].retErr = RetErrOf(calls[c].err)
                      /\ calls[c].retErr # Nil =>
                            calls[c].openErr # Nil \/ calls[c].putErr # Nil

\* SendBytes has returned after a put of its two bytes.
C15_Witness ==
    \E c \in Calls :
        /\ Returned(c)
        /\ calls[c].via = "SendBytes"
        /\ calls[c].put # Nil
        /\ calls[c].put[1].buffer = BytesOneTwo
        /\ calls[c].put[1].md.Format = MQFMT_NONE

\* The persistence and the expiry of a put, from the options prod and the
\* descriptor prior the message came with.
PersistencePut(prod, prior) ==
    IF prior = Nil
    THEN (IF prod.deliveryMode = DeliveryMode_NON_PERSISTENT
          THEN MQPER_NOT_PERSISTENT ELSE MQPER_PERSISTENT)
    ELSE prior[1].md.Persistence

ExpiryPut(prod, prior) ==
    IF GoIntPos(prod.timeToLive)
    THEN GoDiv(Int32Of(prod.timeToLive), 100)
    ELSE IF prior = Nil THEN MQEI_UNLIMITED ELSE prior[1].md.Expiry

\* C19: no step of Send, SendString or SendBytes changes the producer's
\* options; a send works on the options the producer had when the call
\* started, so the persistence and the expiry of its put are those of that
\* moment also when a setter has run in between.
C19_SendLeavesOptions ==
    [][\A c \in Calls :
          /\ calls'[c] # calls[c] => producer' = producer
          /\ (calls[c].pc \in {"idle", "returned"} /\ calls'[c].pc = "open")
                => calls'[c].prod = producer
          /\ (InFlight(c) /\ calls'[c] # calls[c]) =>
                calls'[c].prod = calls[c].prod
          /\ (calls[c].put = Nil /\ calls'[c].put # Nil) =>
                /\ calls'[c].put[1].md.Persistence =
                      PersistencePut(calls[c].prod, calls[c].prior)
                /\ calls'[c].put[1].md.Expiry =
                      ExpiryPut(calls[c].prod, calls[c].prior)]_vars

\* A setter has run between the entry of SendString and its put, and the
\* put has the persistence of the options at the entry.
C19_Witness ==
    \E c \in Calls :
        /\ calls[c].via = "SendString"
        /\ calls[c].put # Nil
        /\ calls[c].optionsChanged
        /\ calls[c].prod.deliveryMode = DeliveryMode_NON_PERSISTENT
        /\ producer.deliveryMode = DeliveryMode_PERSISTENT
        /\ calls[c].put[1].md.Persistence = MQPER_NOT_PERSISTENT

====
